---- MODULE Spec2Model ----
(***************************************************************************)
(* Model of src/app.py: fetch_news_cached (the fetch / fallback / parse /  *)
(* filter pipeline), the st.cache_data(ttl=3600) wrapper around it and the *)
(* "Refresh Market Data" button that clears the cache.                     *)
(*                                                                         *)
(* Text is modelled as a sequence of one-character strings so that         *)
(* substring tests, lower(), replace(), rsplit() and strip() are computed. *)
(* Time is in seconds.  An optional value (Python None or a value) is a    *)
(* sequence of length 0 or 1.                                              *)
(***************************************************************************)
EXTENDS Integers, Sequences, FiniteSets, TLC

None == << >>
Some(x) == << x >>

(* ----------------------------- bounds -------------------------------- *)
\* the clock starts here (seconds); any value later than fourteen days
T0 == 2000000
\* one clock step, in seconds
TickStep == 1800
\* number of clock steps a behaviour may take
MaxTicks == 3
\* longest item pattern of a generated feed
MaxPattern == 2
\* a generated feed repeats its pattern up to this many times
MaxRepeat == 16

(* ------------------------ program constants -------------------------- *)
\* st.cache_data(ttl=3600)
ttl == 3600
\* timedelta(days=14)
days == 14
\* len(articles) >= 15
cap == 15
\* pub_date_raw[:16]
RawDateLen == 16

SecondsPerDay == 24 * 3600

(* --------------------------- text helpers ---------------------------- *)
\* "No Title", "#", "Recent", "Industry News" (placeholders of the code)
NoTitle == << "N", "o", " ", "T" >>
NoLink == "#"
Recent == << "R", "e", "c", "e", "n", "t" >>
IndustryNews == << "I", "N" >>
Separator == << " ", "-", " " >>

\* html.unescape on one character or one entity
UnescapeChar(c) == IF c = "&amp;" THEN "&" ELSE c

\* .replace("[", "(").replace("]", ")") on one character
BracketChar(c) == IF c = "[" THEN "(" ELSE IF c = "]" THEN ")" ELSE c

\* str.lower on one character
LowerChar(c) ==
    CASE c = "R" -> "r"
      [] c = "N" -> "n"
      [] c = "T" -> "t"
      [] c = "I" -> "i"
      [] c = "X" -> "x"
      [] OTHER -> c

\* clean_title = html.unescape(raw_title).replace("[", "(").replace("]", ")")
CleanTitle(raw) == [i \in 1..Len(raw) |-> BracketChar(UnescapeChar(raw[i]))]

Lower(s) == [i \in 1..Len(s) |-> LowerChar(s[i])]

\* Python's  w in s  for strings
Contains(s, w) ==
    \E i \in 0..(Len(s) - Len(w)) : SubSeq(s, i + 1, i + Len(w)) = w

\* any(word in title_lower for word in title_must_include)
AnyWordIn(title_lower, words) ==
    \E k \in 1..Len(words) : Contains(title_lower, words[k])

\* the headline filter: TRUE when the item goes on to the date filter
PassesHeadline_Off(clean, words) == TRUE
PassesHeadline(clean, words) ==
    IF Len(words) > 0 THEN AnyWordIn(Lower(clean), words) ELSE TRUE

\* positions where the separator starts
SepPositions(s) ==
    {i \in 1..Len(s) : i + 2 <= Len(s) /\ SubSeq(s, i, i + 2) = Separator}

Max(S) == CHOOSE x \in S : \A y \in S : y <= x

\* s.rsplit(" - ", 1) when " - " in s
RSplit(s) ==
    LET i == Max(SepPositions(s))
    IN << SubSeq(s, 1, i - 1), SubSeq(s, i + 3, Len(s)) >>

\* str.strip for spaces
RECURSIVE LStrip(_)
LStrip(s) == IF Len(s) > 0 /\ s[1] = " " THEN LStrip(Tail(s)) ELSE s
RECURSIVE RStrip(_)
RStrip(s) ==
    IF Len(s) > 0 /\ s[Len(s)] = " " THEN RStrip(SubSeq(s, 1, Len(s) - 1)) ELSE s
Strip(s) == LStrip(RStrip(s))

\* an element's text, or the default when the element or its text is missing
TextOr(opt, default) == IF opt # None /\ Len(opt[1]) > 0 THEN opt[1] ELSE default

(* ------------------------------ dates -------------------------------- *)
\* A pubDate text is modelled by what email.utils.parsedate_to_datetime
\* makes of it: kind "rfc" parses to the wall-clock second `local` with the
\* zone offset `tz` (an optional number of seconds east of UTC; None is a
\* date without zone), kind "junk" makes the parser raise, and `text` is
\* the raw string.
PubDate(kind, local, tz, text) ==
    [kind |-> kind, local |-> local, tz |-> tz, text |-> text]

\* dt.replace(tzinfo=utc) for a naive date, dt.astimezone(utc) otherwise
ToUTC_IgnoreZone(d) == d.local
ToUTC(d) == IF d.tz = None THEN d.local ELSE d.local - d.tz[1]

\* cutoff_date = now_utc - timedelta(days=14)
CutoffDate(now_utc) == now_utc - days * SecondsPerDay

\* if dt < cutoff_date: continue
TooOld(dt, cutoff_date) == dt < cutoff_date

\* A display date (date_str): dt.strftime("%b %d, %Y") keeps the calendar
\* day of the UTC date, pub_date_raw[:16] keeps raw text, "Recent" is fixed.
StrfDate(dt) == [fmt |-> "strftime", day |-> dt \div SecondsPerDay, text |-> << >>]
RawDate(text) ==
    [fmt |-> "raw", day |-> 0,
     text |-> SubSeq(text, 1, IF Len(text) < RawDateLen THEN Len(text) ELSE RawDateLen)]
RecentDate == [fmt |-> "recent", day |-> 0, text |-> Recent]

(* --------------------------- exceptions ------------------------------ *)
Exc(class, msg) == [class |-> class, msg |-> msg]
\* the classes raised here that derive from Exception
ExceptionClasses ==
    {"ConnectionError", "Timeout", "HTTPError", "ValueError", "ParseError"}
\* requests.exceptions.RequestException and its subclasses
RequestExceptionClasses == {"ConnectionError", "Timeout", "HTTPError"}

\* except Exception (lines 59, 65, 137): does the clause catch e
ExceptException_RequestsOnly(e) == e.class \in RequestExceptionClasses
ExceptException(e) == e.class \in ExceptionClasses

\* outcome of a try body: a raised exception or a value
Raised(e) == [exc |-> Some(e), val |-> None]
Value(v) == [exc |-> None, val |-> Some(v)]

(* ------------------------------ results ------------------------------ *)
\* the returned tuple (articles, error)
Pair(articles, error) == [articles |-> articles, error |-> error]

FailedToLoad == "Failed to load feeds."

\* return None, "Failed to load feeds."
FailedResult == Pair(None, Some(FailedToLoad))

\* return None, str(e)
ErrorResult_Static(e) == FailedResult
ErrorResult(e) == Pair(None, Some(e.msg))

(* ------------------------------- items ------------------------------- *)
\* An <item>: each field is the optional text of a child element.
Item(title, link, pubDate, source) ==
    [title |-> title, link |-> link, pubDate |-> pubDate, source |-> source]

\* lines 98-113: [skip |-> the item is dropped, date |-> date_str]
DateOutcome(item, cutoff_date) ==
    IF item.pubDate # None
    THEN LET d == item.pubDate[1]
         IN IF d.kind = "rfc"
            THEN IF TooOld(ToUTC(d), cutoff_date)
                 THEN [skip |-> TRUE, date |-> RecentDate]
                 ELSE [skip |-> FALSE, date |-> StrfDate(ToUTC(d))]
            ELSE [skip |-> FALSE, date |-> RawDate(d.text)]
    ELSE [skip |-> FALSE, date |-> RecentDate]

\* lines 115-127: [title |-> clean_title, source |-> source]
SourceSplit(clean_title, is_google, item) ==
    LET split == [title |-> RSplit(clean_title)[1], source |-> RSplit(clean_title)[2]]
        whole == [title |-> clean_title, source |-> IndustryNews]
        hasSep == Contains(clean_title, Separator)
    IN IF is_google
       THEN IF hasSep THEN split ELSE whole
       ELSE IF item.source # None /\ Len(item.source[1]) > 0
            THEN [title |-> clean_title, source |-> item.source[1]]
            ELSE IF hasSep THEN split ELSE whole

\* lines 80-88 and 115-134: the record appended for an accepted item
MakeRecord(item, is_google, cutoff_date) ==
    LET clean_title == CleanTitle(TextOr(item.title, NoTitle))
        ts == SourceSplit(clean_title, is_google, item)
    IN [title |-> Strip(ts.title),
        link |-> IF item.link # None /\ item.link[1] # "" THEN item.link[1] ELSE NoLink,
        date |-> DateOutcome(item, cutoff_date).date,
        source |-> Strip(ts.source)]

\* if len(articles) >= 15: break
CapReached_OffByOne(articles) == Len(articles) > cap
CapReached(articles) == Len(articles) >= cap

\* lines 76-134: the loop over root.findall('./channel/item'), from item i on.
\* acc.articles is the list being built; acc.origin records, for each
\* article, the document position of the item it was made from.
RECURSIVE ParseItems(_, _, _, _, _, _)
ParseItems(items, i, acc, words, is_google, cutoff_date) ==
    IF i > Len(items) \/ CapReached(acc.articles)
    THEN acc
    ELSE LET item == items[i]
             clean_title == CleanTitle(TextOr(item.title, NoTitle))
         IN IF ~PassesHeadline(clean_title, words)
            THEN ParseItems(items, i + 1, acc, words, is_google, cutoff_date)
            ELSE IF DateOutcome(item, cutoff_date).skip
            THEN ParseItems(items, i + 1, acc, words, is_google, cutoff_date)
            ELSE ParseItems(items, i + 1,
                     [articles |-> Append(acc.articles,
                                          MakeRecord(item, is_google, cutoff_date)),
                      origin |-> Append(acc.origin, i)],
                     words, is_google, cutoff_date)

\* A response body: rss = it holds the bytes "<rss", wf = it is well-formed
\* XML, items = its ./channel/item elements, err = the parser's message.
Body(rss, wf, items, err) == [rss |-> rss, wf |-> wf, items |-> items, err |-> err]

\* root = ET.fromstring(xml_data)
FromString(xml_data) ==
    IF xml_data.wf THEN Value(xml_data.items) ELSE Raised(Exc("ParseError", xml_data.err))

\* lines 68-136, the try body: parse, filter and build the list
ParseBody(xml_data, is_google, words, now_utc) ==
    LET root == FromString(xml_data)
    IN IF root.exc # None
       THEN [exc |-> root.exc, val |-> None, origin |-> << >>]
       ELSE LET acc == ParseItems(root.val[1], 1, [articles |-> << >>, origin |-> << >>],
                                  words, is_google, CutoffDate(now_utc))
            IN [exc |-> None, val |-> Some(Pair(Some(acc.articles), None)),
                origin |-> acc.origin]

(* ----------------------------- providers ----------------------------- *)
\* What one GET does: kind "ok" is a 2xx response with `body`, "status" a
\* response raise_for_status rejects, "transport" and "timeout" make
\* requests.get raise.
NoBody == Body(FALSE, FALSE, << >>, "")
Response(kind, body) == [kind |-> kind, body |-> body]
NoResp == Response("none", NoBody)

\* requests.get(...) then raise_for_status(): lines 61-62, shared by line 54-55
GetOrRaise(resp) ==
    CASE resp.kind = "transport" -> Raised(Exc("ConnectionError", "connection failed"))
      [] resp.kind = "timeout" -> Raised(Exc("Timeout", "timed out"))
      [] resp.kind = "status" -> Raised(Exc("HTTPError", "503 Server Error"))
      [] OTHER -> Value(resp.body)

\* lines 61-64: the try body of the secondary attempt
BingAttempt(resp) == GetOrRaise(resp)

\* lines 54-58: the try body of the primary attempt
GoogleAttempt_NoMarkerCheck(resp) == GetOrRaise(resp)
GoogleAttempt_NoStatusCheck(resp) ==
    IF resp.kind = "status" THEN Value(resp.body)
    ELSE IF resp.kind = "ok" /\ ~resp.body.rss
         THEN Raised(Exc("ValueError", "Google Block"))
         ELSE GetOrRaise(resp)
GoogleAttempt(resp) ==
    IF resp.kind = "ok" /\ ~resp.body.rss
    THEN Raised(Exc("ValueError", "Google Block"))
    ELSE GetOrRaise(resp)

(* ------------------------------- cache ------------------------------- *)
\* st.cache_data(ttl=3600): an entry is served while younger than ttl
CacheValid_NoExpiry(entry, t) == TRUE
CacheValid(entry, t) == t - entry.at < ttl

\* st.cache_data stores whatever the function returns
Storable_SuccessOnly(result) == result.error = None
Storable(result) == TRUE

(* ------------------------------ inputs ------------------------------- *)
\* mandatory_title_words, over the model's alphabet ("rc" for "recall", ...)
MandatoryWords == << << "r", "c" >>, << "n", "h" >> >>

Key(query, must) == [query |-> query, must |-> must]
\* the keys the application calls with
Keys == {Key("products", << >>), Key("recalls", MandatoryWords)}
\* further filters for the parser
ParseKeys == Keys \cup {Key("recalls", << << "r", "c" >> >>)}
AllKeys == Keys \cup ParseKeys

Cutoff0 == CutoffDate(T0)
Rfc(local, tz) == Some(PubDate("rfc", local, tz, << "r", "f", "c" >>))
LongJunk == [i \in 1..(RawDateLen + 2) |-> IF i <= RawDateLen THEN "j" ELSE "k"]

\* keyword in the headline, brackets, recent zoned date
ItemHeadline ==
    Item(Some(<< "R", "c", " ", "[", "x", "]" >>), Some("u1"), Rfc(T0, Some(0)), None)
\* keyword only after the last " - ", recent date without zone
ItemSourceOnly ==
    Item(Some(<< "x", " ", "-", " ", "R", "c" >>), Some("u2"), Rfc(T0, None), None)
\* no keyword, a separator and a <source> element
ItemOffTopic ==
    Item(Some(<< "x", " ", "-", " ", "y" >>), Some("u3"), Rfc(T0, Some(0)),
         Some(<< " ", "s", " " >>))
\* one second older than the cutoff taken at T0
ItemOld == Item(Some(<< "r", "c" >>), Some("u4"), Rfc(Cutoff0 - 1, Some(0)), None)
\* exactly at the cutoff taken at T0
ItemAtCutoff == Item(Some(<< "r", "c" >>), Some("u5"), Rfc(Cutoff0, None), None)
\* a date the parser rejects, longer than 16 characters
ItemJunkDate ==
    Item(Some(<< "r", "c", "&amp;", "x" >>), Some("u6"),
         Some(PubDate("junk", 0, None, LongJunk)), None)
\* no title, no link, no date
ItemBare == Item(None, None, None, Some(<< "s" >>))
\* wall clock after the cutoff, but one second before it once moved to UTC
ItemZoned ==
    Item(Some(<< "r", "c", " ", "-", " ", "y" >>), Some(""),
         Rfc(Cutoff0 + 3599, Some(3600)), None)

ItemSet == {ItemHeadline, ItemSourceOnly, ItemOffTopic, ItemOld, ItemAtCutoff,
            ItemJunkDate, ItemBare, ItemZoned}

RECURSIVE Repeat(_, _)
Repeat(p, r) == IF r = 0 THEN << >> ELSE p \o Repeat(p, r - 1)

Patterns == UNION {[1..n -> ItemSet] : n \in 1..MaxPattern}
\* feeds for the parser: a pattern of items repeated
LongFeeds == {Repeat(p, r) : p \in Patterns, r \in 1..MaxRepeat}
ParseBodies == {Body(TRUE, TRUE, f, "") : f \in LongFeeds \cup {<< >>}}

\* bodies the providers answer with in the full model
FeedBody == Body(TRUE, TRUE, << ItemHeadline, ItemSourceOnly, ItemOffTopic, ItemAtCutoff >>, "")
EmptyFeedBody == Body(TRUE, TRUE, << >>, "")
BlockPage == Body(FALSE, FALSE, << >>, "syntax error: line 1, column 0")
BrokenFeed == Body(TRUE, FALSE, << >>, "no element found: line 1, column 14")
AtomBody == Body(FALSE, TRUE, << >>, "")
Bodies == {FeedBody, EmptyFeedBody, BlockPage, BrokenFeed, AtomBody}
Responses ==
    {Response("ok", b) : b \in Bodies}
        \cup {Response(k, NoBody) : k \in {"status", "transport", "timeout"}}

(* ------------------------------- state ------------------------------- *)
VARIABLES
    now,        \* the clock, seconds
    cache,      \* st.cache_data: key -> optional [val, at]
    pc,         \* position of the running call: idle, google, bing, parse
    key,        \* arguments of the running (or last) call
    reqs,       \* providers requested by this call, in order
    gresp,      \* what the primary answered in this call
    bresp,      \* what the secondary answered in this call
    xml_data,   \* local xml_data
    is_google,  \* local is_google
    now_utc,    \* local now_utc (evaluation time)
    origin,     \* document positions of the returned articles
    ret,        \* outcome of the call: pending, return (val) or raise
    hit,        \* the call was served from the cache
    callAt,     \* clock when the call started
    prior,      \* lastComp[key] when the call started
    lastComp    \* key -> optional [val, at]: the last result computed for the
                \* key and when, emptied by a manual clear (history)

vars == << now, cache, pc, key, reqs, gresp, bresp, xml_data, is_google,
           now_utc, origin, ret, hit, callAt, prior, lastComp >>

NoPair == Pair(None, None)
Pending == [kind |-> "pending", val |-> NoPair]
Returned(v) == [kind |-> "return", val |-> v]
Escaped == [kind |-> "raise", val |-> NoPair]

Entry(v, t) == [val |-> v, at |-> t]

Init ==
    /\ now = T0
    /\ cache = [k \in AllKeys |-> None]
    /\ lastComp = [k \in AllKeys |-> None]
    /\ pc = "idle"
    /\ key = Key("products", << >>)
    /\ reqs = << >>
    /\ gresp = NoResp
    /\ bresp = NoResp
    /\ xml_data = NoBody
    /\ is_google = TRUE
    /\ now_utc = T0
    /\ origin = << >>
    /\ ret = Pending
    /\ hit = FALSE
    /\ callAt = T0
    /\ prior = None

\* the function returns `result`: the wrapper stores it and hands it back
Finish(result) ==
    /\ ret' = Returned(result)
    /\ cache' = IF Storable(result)
                THEN [cache EXCEPT ![key] = Some(Entry(result, now))]
                ELSE cache
    /\ lastComp' = [lastComp EXCEPT ![key] = Some(Entry(result, now))]
    /\ pc' = "idle"

\* an exception leaves the function: nothing is stored
Escape ==
    /\ ret' = Escaped
    /\ pc' = "idle"
    /\ UNCHANGED << cache, lastComp >>

\* the wrapper finds a live entry for the arguments: the body does not run
CallHit(k) ==
    /\ pc = "idle"
    /\ cache[k] # None
    /\ CacheValid(cache[k][1], now)
    /\ key' = k
    /\ ret' = Returned(cache[k][1].val)
    /\ hit' = TRUE
    /\ callAt' = now
    /\ prior' = lastComp[k]
    /\ reqs' = << >>
    /\ gresp' = NoResp
    /\ bresp' = NoResp
    /\ xml_data' = NoBody
    /\ is_google' = TRUE
    /\ now_utc' = now
    /\ origin' = << >>
    /\ UNCHANGED << now, cache, pc, lastComp >>

\* no live entry: the body starts (lines 41-51)
CallMiss(k) ==
    /\ pc = "idle"
    /\ ~(cache[k] # None /\ CacheValid(cache[k][1], now))
    /\ key' = k
    /\ ret' = Pending
    /\ hit' = FALSE
    /\ callAt' = now
    /\ prior' = lastComp[k]
    /\ reqs' = << >>
    /\ gresp' = NoResp
    /\ bresp' = NoResp
    /\ xml_data' = NoBody
    /\ is_google' = TRUE
    /\ now_utc' = now
    /\ origin' = << >>
    /\ pc' = "google"
    /\ UNCHANGED << now, cache, lastComp >>

\* lines 53-59: the primary attempt
RequestGoogle(resp) ==
    /\ pc = "google"
    /\ reqs' = Append(reqs, "google")
    /\ gresp' = resp
    /\ LET out == GoogleAttempt(resp)
       IN IF out.exc = None
          THEN /\ xml_data' = out.val[1]
               /\ pc' = "parse"
               /\ UNCHANGED << ret, cache, lastComp >>
          ELSE IF ExceptException(out.exc[1])
          THEN /\ pc' = "bing"
               /\ UNCHANGED << xml_data, ret, cache, lastComp >>
          ELSE /\ Escape
               /\ UNCHANGED xml_data
    /\ UNCHANGED << now, key, bresp, is_google, now_utc, origin, hit, callAt, prior >>

\* lines 60-66: the secondary attempt
RequestBing(resp) ==
    /\ pc = "bing"
    /\ reqs' = Append(reqs, "bing")
    /\ bresp' = resp
    /\ LET out == BingAttempt(resp)
       IN IF out.exc = None
          THEN /\ xml_data' = out.val[1]
               /\ is_google' = FALSE
               /\ pc' = "parse"
               /\ UNCHANGED << ret, cache, lastComp >>
          ELSE IF ExceptException(out.exc[1])
          THEN /\ Finish(FailedResult)
               /\ UNCHANGED << xml_data, is_google >>
          ELSE /\ Escape
               /\ UNCHANGED << xml_data, is_google >>
    /\ UNCHANGED << now, key, gresp, now_utc, origin, hit, callAt, prior >>

\* lines 68-138: parse, filter, return
Parse ==
    /\ pc = "parse"
    /\ now_utc' = now
    /\ \E out \in {ParseBody(xml_data, is_google, key.must, now)} :
          IF out.exc = None
          THEN /\ origin' = out.origin
               /\ Finish(out.val[1])
          ELSE IF ExceptException(out.exc[1])
          THEN /\ origin' = << >>
               /\ Finish(ErrorResult(out.exc[1]))
          ELSE /\ origin' = << >>
               /\ Escape
    /\ UNCHANGED << now, key, reqs, gresp, bresp, xml_data, is_google, hit, callAt, prior >>

\* time passes
Tick ==
    /\ now < T0 + MaxTicks * TickStep
    /\ now' = now + TickStep
    /\ UNCHANGED << cache, pc, key, reqs, gresp, bresp, xml_data, is_google,
                    now_utc, origin, ret, hit, callAt, prior, lastComp >>

\* lines 222-223: st.cache_data.clear()
ClearCache ==
    /\ cache' = [k \in AllKeys |-> None]
    /\ lastComp' = [k \in AllKeys |-> None]
    /\ UNCHANGED << now, pc, key, reqs, gresp, bresp, xml_data, is_google,
                    now_utc, origin, ret, hit, callAt, prior >>

Next ==
    \/ \E k \in Keys : CallHit(k)
    \/ \E k \in Keys : CallMiss(k)
    \/ \E resp \in Responses : RequestGoogle(resp)
    \/ \E resp \in Responses : RequestBing(resp)
    \/ Parse
    \/ Tick
    \/ ClearCache

Spec == Init /\ [][Next]_vars

\* Each step of a running call completes: both requests carry timeout=10
\* and the parse loop is bounded by the feed.  Leaves(p) is the step that
\* takes the call away from position p.
Leaves(p) == pc = p /\ pc' \in {"idle", "google", "bing", "parse"} \ {p}
Fairness ==
    /\ WF_pc(Leaves("google"))
    /\ WF_pc(Leaves("bing"))
    /\ WF_pc(Leaves("parse"))
SpecLive == Spec /\ Fairness

(* ------------------- the parser on generated feeds ------------------- *)
\* The call has fetched a well-formed feed, from the primary or, after a
\* failed primary attempt, from the secondary, and is about to parse it.
InitParse ==
    /\ now = T0
    /\ cache = [k \in AllKeys |-> None]
    /\ lastComp = [k \in AllKeys |-> None]
    /\ pc = "parse"
    /\ key \in ParseKeys
    /\ xml_data \in ParseBodies
    /\ is_google \in BOOLEAN
    /\ gresp = IF is_google THEN Response("ok", xml_data) ELSE Response("status", NoBody)
    /\ bresp = IF is_google THEN NoResp ELSE Response("ok", xml_data)
    /\ reqs = IF is_google THEN << "google" >> ELSE << "google", "bing" >>
    /\ now_utc = now
    /\ origin = << >>
    /\ ret = Pending
    /\ hit = FALSE
    /\ callAt = now
    /\ prior = None

NextParse == Parse

SpecParse == InitParse /\ [][NextParse]_vars

(* ======================= properties of the code ====================== *)
\* the running call has returned a result it computed itself
Computed == pc = "idle" /\ ret.kind = "return" /\ ~hit
\* the primary attempt is unusable: it raised, had a non-success status,
\* or its body lacks the "<rss" marker
PrimaryFailed(r) ==
    r.kind \in {"status", "transport", "timeout"} \/ (r.kind = "ok" /\ ~r.body.rss)
\* the secondary attempt raised or had a non-success status
SecondaryFailed(r) == r.kind \in {"status", "transport", "timeout"}
\* the UTC second of a parseable publication date
UtcOf(item) ==
    LET d == item.pubDate[1] IN IF d.tz = None THEN d.local ELSE d.local - d.tz[1]
Parseable(item) == item.pubDate # None /\ item.pubDate[1].kind = "rfc"
\* the lowercased cleaned headline of the item holds one of the words
HeadlineHasWord(item, words) ==
    LET t == Lower(CleanTitle(TextOr(item.title, NoTitle)))
    IN \E k \in 1..Len(words) : Contains(t, words[k])
\* the item passes the mandatory-keyword filter and the recency filter
Qualifies(item, words, eval) ==
    /\ words = << >> \/ HeadlineHasWord(item, words)
    /\ Parseable(item) => UtcOf(item) >= eval - 14 * 86400
Articles == ret.val.articles[1]
Success == Computed /\ ret.val.articles # None

\* C1: every call ends by returning a pair with exactly one of (articles,
\* error) non-null; no exception leaves the function.
ExactlyOneComponent ==
    /\ ret.kind # "raise"
    /\ ret.kind = "return" =>
          /\ (ret.val.articles = None) # (ret.val.error = None)
          /\ Len(ret.val.articles) + Len(ret.val.error) = 1
C1_ReturnsExactlyOne ==
    /\ []ExactlyOneComponent
    /\ (pc # "idle") ~> (pc = "idle" /\ ret.kind = "return")
C1_Witness ==
    /\ Computed
    /\ gresp.kind = "ok" /\ bresp.kind = "timeout"
    /\ ret.val.articles = None /\ ret.val.error # None

\* C2: in an uncached call the primary is requested first and once; the
\* secondary is requested once exactly when the primary attempt failed, and
\* before any result; never more than two requests.
C2_RequestOrder ==
    /\ reqs \in {<< >>, << "google" >>, << "google", "bing" >>}
    /\ pc = "google" => reqs = << >>
    /\ pc = "bing" => reqs = << "google" >> /\ PrimaryFailed(gresp)
    /\ (pc = "parse" \/ Computed) =>
          reqs = IF PrimaryFailed(gresp) THEN << "google", "bing" >> ELSE << "google" >>
C2_Witness ==
    /\ Computed
    /\ gresp = Response("ok", BlockPage)
    /\ reqs = << "google", "bing" >>
    /\ ret.val.error = None

\* C3: a computed result is (null, "Failed to load feeds.") exactly when both
\* attempts failed; a fetched body that is not well-formed XML gives
\* (null, the parser's message).
C3_StaticMessageIffBothFail ==
    Computed =>
        /\ (PrimaryFailed(gresp) /\ SecondaryFailed(bresp)) <=>
              (ret.val = Pair(None, Some("Failed to load feeds.")))
        /\ (~PrimaryFailed(gresp) /\ ~gresp.body.wf) =>
              ret.val = Pair(None, Some(gresp.body.err))
        /\ (PrimaryFailed(gresp) /\ bresp.kind = "ok" /\ ~bresp.body.wf) =>
              ret.val = Pair(None, Some(bresp.body.err))
C3_Witness ==
    /\ Computed
    /\ gresp = Response("ok", BlockPage) /\ bresp.kind = "status"
    /\ ret.val = Pair(None, Some("Failed to load feeds."))

\* C4: every returned article whose publication date parsed has that date,
\* in UTC, not before (evaluation time - 14 days); an item dated exactly at
\* the cutoff that passes the headline filter is returned unless the cap
\* stopped the loop first.
C4_RecencyWindow ==
    Success =>
        /\ \A k \in 1..Len(Articles) :
              LET item == xml_data.items[origin[k]]
              IN Parseable(item) => UtcOf(item) >= now_utc - 14 * 86400
        /\ Len(Articles) < cap =>
              \A i \in 1..Len(xml_data.items) :
                 LET item == xml_data.items[i]
                 IN (/\ Parseable(item)
                     /\ UtcOf(item) = now_utc - 14 * 86400
                     /\ key.must = << >> \/ HeadlineHasWord(item, key.must))
                    => \E k \in 1..Len(origin) : origin[k] = i
C4_Witness ==
    /\ Success
    /\ \E k \in 1..Len(origin) :
          /\ Parseable(xml_data.items[origin[k]])
          /\ UtcOf(xml_data.items[origin[k]]) = now_utc - 14 * 86400
    /\ \E i \in 1..Len(xml_data.items) :
          /\ xml_data.items[i] = ItemZoned
          /\ \A k \in 1..Len(origin) : origin[k] # i

\* C5: under a non-empty mandatory-keyword set, the lowercased title of every
\* returned article contains one of the keywords.
C5_ReturnedTitleHasKeyword ==
    (Success /\ key.must # << >>) =>
        \A k \in 1..Len(Articles) :
            \E w \in 1..Len(key.must) : Contains(Lower(Articles[k].title), key.must[w])

\* C6: the returned list never has more articles than the cap.
C6_CountWithinCap == Success => Len(Articles) <= 15
C6_Witness ==
    /\ Success
    /\ Len(Articles) = 15
    /\ Cardinality({i \in 1..Len(xml_data.items) :
                       Qualifies(xml_data.items[i], key.must, now_utc)}) > 15

\* C9: for a well-formed feed the returned list is the first cap qualifying
\* items in document order, each turned into its record.
QualifyingPositions ==
    LET n == Len(xml_data.items)
        Q(i) == Qualifies(xml_data.items[i], key.must, now_utc)
    IN SelectSeq([i \in 1..n |-> i], Q)
C9_FirstCapQualifying ==
    Success =>
        LET q == QualifyingPositions
            m == IF Len(q) < 15 THEN Len(q) ELSE 15
        IN /\ origin = SubSeq(q, 1, m)
           /\ Len(Articles) = m
           /\ \A k \in 1..m :
                 Articles[k] =
                     MakeRecord(xml_data.items[q[k]], is_google, now_utc - 14 * 86400)
C9_Witness ==
    /\ Success
    /\ key.must # << >>
    /\ Len(Articles) = 15
    /\ origin[15] > 15
    /\ origin[15] < Len(xml_data.items)
    /\ ~Qualifies(xml_data.items[1], key.must, now_utc)

\* C7: a call is served from the cache, with no provider request, exactly
\* when a result for its key was computed less than ttl ago and no manual
\* clear happened since; otherwise it recomputes.
Started == pc # "idle" \/ ret.kind # "pending"
C7_CacheContract ==
    Started =>
        IF prior # None /\ callAt - prior[1].at < 3600
        THEN /\ hit
             /\ pc = "idle"
             /\ ret = Returned(prior[1].val)
             /\ reqs = << >>
        ELSE /\ ~hit
             /\ pc = "idle" => Len(reqs) >= 1
C7_Witness ==
    /\ hit
    /\ prior # None
    /\ callAt > prior[1].at
    /\ reqs = << >>
    /\ \E k \in Keys : k # key /\ cache[k] # None /\ now - cache[k][1].at >= 3600

\* C8 as stated: a primary body that lacks the marker or is not well-formed
\* XML always leads to a secondary attempt before the call returns.
C8_FallbackOnAnyMalformed ==
    (Computed /\ gresp.kind = "ok" /\ (~gresp.body.rss \/ ~gresp.body.wf)) =>
        \E i \in 1..Len(reqs) : reqs[i] = "bing"
\* C8 amended: the secondary is attempted when the primary raises, has a
\* non-success status or lacks the marker; a primary body that holds the
\* marker but is not well-formed XML is not retried: the call returns
\* (null, the parser's message) after the one request.
C8_FallbackOnlyOnFetchFailure ==
    Computed =>
        /\ PrimaryFailed(gresp) => (bresp # NoResp /\ reqs[Len(reqs)] = "bing")
        /\ (gresp.kind = "ok" /\ gresp.body.rss /\ ~gresp.body.wf) =>
              /\ bresp = NoResp
              /\ reqs = << "google" >>
              /\ ret.val = Pair(None, Some(gresp.body.err))
C8_Witness ==
    /\ Computed
    /\ gresp = Response("ok", BrokenFeed)
    /\ bresp = NoResp
    /\ ret.val.error = Some(BrokenFeed.err)

\* C10 as stated: a terminal failure is never stored in the cache.
C10_FailuresNeverStored ==
    \A k \in AllKeys : cache[k] # None => cache[k][1].val.error = None
\* C10 amended: the cache holds every returned result, failures too; a call
\* after a failed call with the same key, within ttl and with no clear in
\* between, gets the stored failure and issues no request.
C10_FailuresAreStored ==
    /\ \A k \in AllKeys :
          (lastComp[k] # None /\ lastComp[k][1].val.error # None) =>
              cache[k] = lastComp[k]
    /\ (Started /\ prior # None /\ prior[1].val.error # None
            /\ callAt - prior[1].at < 3600) =>
          (hit /\ ret.val = prior[1].val /\ reqs = << >>)
C10_Witness ==
    /\ hit
    /\ pc = "idle"
    /\ ret.val = Pair(None, Some("Failed to load feeds."))
    /\ reqs = << >>
    /\ callAt > prior[1].at

====
